---- MODULE Spec2Model ----
(***************************************************************************)
(* har2document: the document builder (convert_har_entry_to_document,      *)
(* convert_har_file_to_documents) and the Markdown render engine           *)
(* (MarkdownComponent and its five kinds, render_document_to_markdown).    *)
(*                                                                         *)
(* A text is a sequence of characters, each a one-character string.  A     *)
(* fixed word of a literal that no operation of the program searches       *)
(* inside ("Query Parameter", "application/json", "GET") is kept as one    *)
(* element; every character an operation looks at (a newline, a backtick,  *)
(* "=", a brace, the characters of paths, keys, values and bodies) is an   *)
(* element of its own.                                                     *)
(***************************************************************************)
EXTENDS Integers, Sequences, FiniteSets, TLC

VARIABLES
    har,                \* the entries of the capture, in order
    masking_mapping,    \* the ordered masking rules, <<literal, replacement>>
    component_classes,  \* the caller's ordered list of component kinds
    pc,                 \* where the program is
    idx,                \* the entry the list comprehension builds next
    acc,                \* the list the comprehension has built so far
    documents,          \* the list convert_har_file_to_documents returned
    invoked,            \* the functions the last conversion called, in order
    built,              \* the documents as they were returned
    sel,                \* the document a render call is bound to
    k,                  \* the component a render call evaluates next
    blocks,             \* the blocks the render call has produced
    kinds,              \* the kind of each block produced
    markdown,           \* what the last render call returned
    first,              \* what the first render call returned
    calls,              \* the render calls completed
    body_text,          \* the argument of a direct replace_string_by_mapping call
    replaced            \* what that call returned

vars == <<har, masking_mapping, component_classes, pc, idx, acc, documents,
          invoked, built, sel, k, blocks, kinds, markdown, first, calls,
          body_text, replaced>>

(***************************************************************************)
(* Bounds of the model.                                                    *)
(***************************************************************************)
MaxEntries == 2
MaxQuery == 3
MaxComponents == 2
MaxCalls == 2
MaxText == 3
MaxRules == 2
MaxRest == 3

(***************************************************************************)
(* Python values.                                                          *)
(***************************************************************************)
\* None; no text holds the element "None", so None differs from every text.
None == <<"None">>

\* bool(x) is False for None and for the empty string.
Falsy(x) == x = None \/ x = <<>>

\* s[i:i+len(t)] == t
MatchAt(s, t, i) ==
    /\ i + Len(t) - 1 <= Len(s)
    /\ \A j \in 1..Len(t) : s[i + j - 1] = t[j]

\* All the sequences over S of length at most n.
SeqsUpTo(S, n) == UNION {[1..m -> S] : m \in 0..n}

(***************************************************************************)
(* str.replace, str.split(...)[-1] and urllib.parse.unquote_plus.          *)
(***************************************************************************)
\* s.replace(old, new) from position i on: the occurrences of old are found
\* left to right and do not overlap; an empty old matches before every
\* character and at the end.
RECURSIVE ReplaceFrom(_, _, _, _)
ReplaceFrom(s, old, new, i) ==
    IF old = <<>>
    THEN IF i > Len(s) THEN new
         ELSE new \o <<s[i]>> \o ReplaceFrom(s, old, new, i + 1)
    ELSE IF i > Len(s) THEN <<>>
         ELSE IF MatchAt(s, old, i)
              THEN new \o ReplaceFrom(s, old, new, i + Len(old))
              ELSE <<s[i]>> \o ReplaceFrom(s, old, new, i + 1)

StrReplace(s, old, new) == ReplaceFrom(s, old, new, 1)

\* s.split(sep)[-1] for a non-empty sep: what follows the last of the
\* occurrences of sep found left to right without overlap (from is where the
\* current piece starts, i where the search stands).
RECURSIVE SplitLastFrom(_, _, _, _)
SplitLastFrom(s, sep, from, i) ==
    IF i + Len(sep) - 1 > Len(s) THEN SubSeq(s, from, Len(s))
    ELSE IF MatchAt(s, sep, i)
         THEN SplitLastFrom(s, sep, i + Len(sep), i + Len(sep))
         ELSE SplitLastFrom(s, sep, from, i + 1)

SplitLast(s, sep) == SplitLastFrom(s, sep, 1, 1)

\* The hexadecimal digits among the characters of the URLs drawn.
HexDigits == {"2", "F"}

\* The character a %xx escape decodes to: %22 and %2F are ASCII; the bytes
\* F2 and FF are no UTF-8 text on their own and decode to U+FFFD
\* (errors="replace").
UnquoteByte(h1, h2) ==
    IF h1 = "2" /\ h2 = "2" THEN "\""
    ELSE IF h1 = "2" /\ h2 = "F" THEN "/"
    ELSE "U+FFFD"

\* unquote_plus(s): "+" becomes a space, then every "%" followed by two
\* hexadecimal digits becomes the character it encodes; any other "%" stays.
RECURSIVE UnquoteFrom(_, _)
UnquoteFrom(s, i) ==
    IF i > Len(s) THEN <<>>
    ELSE IF s[i] = "+" THEN <<" ">> \o UnquoteFrom(s, i + 1)
    ELSE IF /\ s[i] = "%"
            /\ i + 2 <= Len(s)
            /\ s[i + 1] \in HexDigits
            /\ s[i + 2] \in HexDigits
         THEN <<UnquoteByte(s[i + 1], s[i + 2])>> \o UnquoteFrom(s, i + 3)
         ELSE <<s[i]>> \o UnquoteFrom(s, i + 1)

unquote_plus(s) == UnquoteFrom(s, 1)

(***************************************************************************)
(* The temporal parsers.  A timestamp text is the sequence of its lexical  *)
(* fields, each named by the strptime directive or literal it reads as;    *)
(* strptime accepts the text when the fields are those of the format.      *)
(***************************************************************************)
StartTimeFormat == <<"%Y-%m-%d", "T", "%H:%M:%S", ".", "%f", "%z">>

ResponseDateFormat == <<"%a", ", ", "%d %b %Y", " ", "%H:%M:%S", " GMT">>

\* parse_start_time: raises ValueError unless the text matches the format.
parse_start_time(datetime_str) ==
    IF datetime_str = StartTimeFormat
    THEN [raised |-> FALSE, value |-> <<"local">> \o datetime_str]
    ELSE [raised |-> TRUE, value |-> None]

\* parse_response_date: the text is read as UTC, then moved to local time.
parse_response_date(datetime_str) ==
    IF datetime_str = ResponseDateFormat
    THEN [raised |-> FALSE, value |-> <<"local", "utc">> \o datetime_str]
    ELSE [raised |-> TRUE, value |-> None]

(***************************************************************************)
(* parse_request_query_string: a dict comprehension over the name/value    *)
(* pairs.  A dict is the sequence of its <<key, value>> items in insertion *)
(* order; assigning to a key it holds replaces the value where it stands.  *)
(***************************************************************************)
DictKeys(d) == {d[i][1] : i \in 1..Len(d)}

\* A mapping in which the first value of a key wins.
DictSetKeepFirst(d, key, value) ==
    IF key \in DictKeys(d) THEN d ELSE Append(d, <<key, value>>)

DictSet(d, key, value) ==
    IF key \in DictKeys(d)
    THEN [i \in 1..Len(d) |-> IF d[i][1] = key THEN <<key, value>> ELSE d[i]]
    ELSE Append(d, <<key, value>>)

RECURSIVE DictFromPairs(_, _)
DictFromPairs(d, pairs) ==
    IF pairs = <<>> THEN d
    ELSE DictFromPairs(DictSet(d, Head(pairs)[1], Head(pairs)[2]), Tail(pairs))

parse_request_query_string(query_string) == DictFromPairs(<<>>, query_string)

(***************************************************************************)
(* parse_body_text: json.loads and json.dumps(indent=4) on the JSON texts  *)
(* made of "[", "]", ",", the digit 1 and white space.  A JSON value is    *)
(* <<"num", digits>> or <<"arr", items>>.                                  *)
(***************************************************************************)
JsonWhitespace == {" ", "\n", "\t", "\r"}

\* The indent of json.dumps(..., indent=4).
IndentWidth == 4

RECURSIVE SkipWhitespace(_, _)
SkipWhitespace(s, i) ==
    IF i <= Len(s) /\ s[i] \in JsonWhitespace
    THEN SkipWhitespace(s, i + 1)
    ELSE i

RECURSIVE DigitsEnd(_, _)
DigitsEnd(s, i) ==
    IF i <= Len(s) /\ s[i] = "1" THEN DigitsEnd(s, i + 1) ELSE i

JsonFail == [ok |-> FALSE, next |-> 0, val |-> <<>>]

\* The value that starts at s[i], white space skipped, and where it ends.
RECURSIVE JsonValue(_, _), JsonItems(_, _, _)
JsonValue(s, i) ==
    LET j == SkipWhitespace(s, i) IN
    IF j > Len(s) THEN JsonFail
    ELSE IF s[j] = "1"
         THEN LET e == DigitsEnd(s, j) IN
              [ok |-> TRUE, next |-> e, val |-> <<"num", SubSeq(s, j, e - 1)>>]
    ELSE IF s[j] = "["
         THEN LET n == SkipWhitespace(s, j + 1) IN
              IF n <= Len(s) /\ s[n] = "]"
              THEN [ok |-> TRUE, next |-> n + 1, val |-> <<"arr", <<>>>>]
              ELSE JsonItems(s, n, <<>>)
    ELSE JsonFail

JsonItems(s, i, items) ==
    LET r == JsonValue(s, i) IN
    IF ~r.ok THEN JsonFail
    ELSE LET n == SkipWhitespace(s, r.next) IN
         IF n > Len(s) THEN JsonFail
         ELSE IF s[n] = "]"
              THEN [ok |-> TRUE, next |-> n + 1,
                    val |-> <<"arr", Append(items, r.val)>>]
         ELSE IF s[n] = ","
              THEN JsonItems(s, n + 1, Append(items, r.val))
         ELSE JsonFail

\* json.loads(s): one value, white space around it, and nothing else.
JsonLoads(s) ==
    LET r == JsonValue(s, 1) IN
    IF r.ok /\ SkipWhitespace(s, r.next) > Len(s) THEN r ELSE JsonFail

Spaces(n) == [i \in 1..n |-> " "]

\* json.dumps(val, indent=4) at nesting depth level.
RECURSIVE JsonDumps(_, _), JsonDumpItems(_, _)
JsonDumps(val, level) ==
    IF val[1] = "num" THEN val[2]
    ELSE IF val[2] = <<>> THEN <<"[", "]">>
    ELSE <<"[", "\n">> \o JsonDumpItems(val[2], level + 1)
         \o <<"\n">> \o Spaces(IndentWidth * level) \o <<"]">>

JsonDumpItems(items, level) ==
    Spaces(IndentWidth * level) \o JsonDumps(Head(items), level)
    \o (IF Len(items) = 1 THEN <<>>
        ELSE <<",", "\n">> \o JsonDumpItems(Tail(items), level))

\* _format_json_pretty: raises json.JSONDecodeError on a text that is no JSON.
format_json_pretty(json_str) ==
    LET r == JsonLoads(json_str) IN
    IF r.ok THEN [raised |-> FALSE, value |-> JsonDumps(r.val, 0)]
    ELSE [raised |-> TRUE, value |-> None]

ApplicationJson == <<"application/json">>

\* A normalizer that passes a text that is no JSON through.
parse_body_text_lenient(text, content_type) ==
    IF content_type = ApplicationJson /\ format_json_pretty(text).raised = FALSE
    THEN format_json_pretty(text)
    ELSE [raised |-> FALSE, value |-> text]

\* parse_body_text: the match on the content type.
parse_body_text(text, content_type) ==
    IF content_type = ApplicationJson
    THEN format_json_pretty(text)
    ELSE [raised |-> FALSE, value |-> text]

(***************************************************************************)
(* replace_string_by_mapping: one global str.replace per rule, in the      *)
(* order of the mapping, each on the result of the one before.             *)
(***************************************************************************)
RECURSIVE replace_string_by_mapping(_, _)
replace_string_by_mapping(text, mapping) ==
    IF mapping = <<>> THEN text
    ELSE replace_string_by_mapping(
             StrReplace(text, Head(mapping)[1], Head(mapping)[2]),
             Tail(mapping))

(***************************************************************************)
(* convert_har_entry_to_document.                                          *)
(***************************************************************************)
\* request.url.split(request.host)[-1], decoded.
RequestPath(url, host) == unquote_plus(SplitLast(url, host))

\* A conversion that masks the raw text and formats the result.
ConvertBodyMaskFirst(text, mime_type, mapping) ==
    IF Falsy(text)
    THEN [raised |-> FALSE, value |-> text, calls |-> <<>>]
    ELSE LET parsed == parse_body_text(
                           replace_string_by_mapping(text, mapping), mime_type)
         IN  IF parsed.raised
             THEN [raised |-> TRUE, value |-> None,
                   calls |-> <<"replace_string", "parse_body_text">>]
             ELSE [raised |-> FALSE, value |-> parsed.value,
                   calls |-> <<"parse_body_text", "replace_string">>]

\* text and replace_string(parse_body_text(text, mime_type)): a falsy text is
\* the value itself and nothing is called; calls lists what is called.
ConvertBody(text, mime_type, mapping) ==
    IF Falsy(text)
    THEN [raised |-> FALSE, value |-> text, calls |-> <<>>]
    ELSE LET parsed == parse_body_text(text, mime_type) IN
         IF parsed.raised
         THEN [raised |-> TRUE, value |-> None,
               calls |-> <<"parse_body_text">>]
         ELSE [raised |-> FALSE,
               value |-> replace_string_by_mapping(parsed.value, mapping),
               calls |-> <<"parse_body_text", "replace_string">>]

\* The dict display is evaluated in the order it is written; the first
\* exception ends it.  calls lists the body functions it called, request
\* first.
convert_har_entry_to_document(entry, mapping) ==
    LET started == parse_start_time(entry.startedDateTime)
        request_body == ConvertBody(entry.request_text, entry.request_mimeType,
                                    mapping)
        date == parse_response_date(entry.response_date)
        response_body == ConvertBody(entry.response_text,
                                     entry.response_mimeType, mapping)
    IN  IF started.raised
        THEN [raised |-> TRUE, document |-> None, calls |-> <<>>]
        ELSE IF request_body.raised \/ date.raised
        THEN [raised |-> TRUE, document |-> None,
              calls |-> <<request_body.calls, <<>>>>]
        ELSE IF response_body.raised
        THEN [raised |-> TRUE, document |-> None,
              calls |-> <<request_body.calls, response_body.calls>>]
        ELSE [raised |-> FALSE,
              document |->
                [request_method |-> entry.method,
                 request_datetime |-> started.value,
                 request_url |-> unquote_plus(entry.url),
                 request_host |-> unquote_plus(entry.host),
                 request_path |-> RequestPath(entry.url, entry.host),
                 request_query_string |->
                     parse_request_query_string(entry.queryString),
                 request_content_type |-> entry.request_mimeType,
                 request_body |-> request_body.value,
                 response_datetime |-> date.value,
                 response_status_code |-> entry.status,
                 response_content_type |-> entry.response_mimeType,
                 response_body |-> response_body.value,
                 time_elapsed |-> entry.time],
              calls |-> <<request_body.calls, response_body.calls>>]

(***************************************************************************)
(* The Markdown components.  Each is bound to a document; condition reads  *)
(* it, render returns the block and the document as render leaves it.      *)
(***************************************************************************)
GET == <<"GET">>

\* The backquote character of the Markdown literals.
Backtick == "BACKQUOTE"

RECURSIVE Join(_, _)
Join(parts, sep) ==
    IF parts = <<>> THEN <<>>
    ELSE IF Len(parts) = 1 THEN Head(parts)
    ELSE Head(parts) \o sep \o Join(Tail(parts), sep)

\* The loop of Endpoint.render: for every item of the query mapping, in
\* order, the path is replaced by path.replace("key=value", "key={key}").
RECURSIVE TemplatePath(_, _)
TemplatePath(path, items) ==
    IF items = <<>> THEN path
    ELSE LET key == Head(items)[1]
             value == Head(items)[2]
         IN  TemplatePath(
                 StrReplace(path, key \o <<"=">> \o value,
                            key \o <<"=", "{">> \o key \o <<"}">>),
                 Tail(items))

\* Endpoint.render: the loop assigns document["request_path"].
EndpointRender(document) ==
    LET after ==
            IF document.request_method = GET
            THEN [document EXCEPT !.request_path =
                      TemplatePath(document.request_path,
                                   document.request_query_string)]
            ELSE document
    IN  [text |-> <<"#", "#", "#", " ">> \o after.request_method
                  \o <<" ", Backtick>> \o after.request_path \o <<Backtick>>,
         document |-> after]

QueryBullet(item) ==
    <<"-", " ", Backtick>> \o item[1] \o <<Backtick, ":", " ", Backtick>> \o item[2] \o <<Backtick>>

QueryParameterRender(document) ==
    [text |-> <<"Query Parameter", "\n", "\n">>
              \o Join([i \in 1..Len(document.request_query_string) |->
                          QueryBullet(document.request_query_string[i])],
                      <<"\n">>),
     document |-> document]

QueryParameterCondition(document) == document.request_query_string # <<>>

RequestHeaderRender(document) ==
    [text |-> <<"Request Header", "\n", "\n", "-", " ", "Content-Type", ":",
                " ", Backtick>> \o document.request_content_type \o <<Backtick>>,
     document |-> document]

\* A condition that forgets the JSON exception.
RequestHeaderConditionAnyType(document) ==
    ~Falsy(document.request_content_type)

RequestHeaderCondition(document) ==
    /\ ~Falsy(document.request_content_type)
    /\ document.request_content_type # ApplicationJson

\* body or ""
OrEmpty(body) == IF Falsy(body) THEN <<>> ELSE body

RequestBodyRender(document) ==
    [text |-> <<"Request Body", "\n", "\n", Backtick, Backtick, Backtick, "json", "\n">>
              \o OrEmpty(document.request_body) \o <<"\n", Backtick, Backtick, Backtick>>,
     document |-> document]

RequestBodyCondition(document) == document.request_method # GET

ResponseBodyRender(document) ==
    [text |-> <<"Response Body", " ", "(">>
              \o <<ToString(document.response_status_code)>>
              \o <<")", "\n", "\n", Backtick, Backtick, Backtick, "json", "\n">>
              \o OrEmpty(document.response_body) \o <<"\n", Backtick, Backtick, Backtick>>,
     document |-> document]

Kinds == {"Endpoint", "QueryParameter", "RequestHeader", "RequestBody",
          "ResponseBody"}

\* The list main() passes.
StandardComponents ==
    <<"Endpoint", "QueryParameter", "RequestHeader", "RequestBody",
      "ResponseBody">>

\* component.condition; MarkdownComponent's own is True.
Condition(kind, document) ==
    CASE kind = "QueryParameter" -> QueryParameterCondition(document)
      [] kind = "RequestHeader" -> RequestHeaderCondition(document)
      [] kind = "RequestBody" -> RequestBodyCondition(document)
      [] OTHER -> TRUE

\* component.render()
Render(kind, document) ==
    CASE kind = "Endpoint" -> EndpointRender(document)
      [] kind = "QueryParameter" -> QueryParameterRender(document)
      [] kind = "RequestHeader" -> RequestHeaderRender(document)
      [] kind = "RequestBody" -> RequestBodyRender(document)
      [] kind = "ResponseBody" -> ResponseBodyRender(document)

\* A join on a single newline.
SeparatorOneNewline == <<"\n">>

\* The separator of render_document_to_markdown's join.
Separator == <<"\n", "\n">>

(***************************************************************************)
(* convert_har_file_to_documents: the list comprehension over the entries. *)
(***************************************************************************)
\* One entry is converted and appended; an exception of the conversion
\* leaves the comprehension and the function, and the list built so far is
\* dropped with the frame.
ConvertEntry ==
    /\ pc = "convert"
    /\ idx <= Len(har)
    /\ LET r == convert_har_entry_to_document(har[idx], masking_mapping) IN
       /\ invoked' = r.calls
       /\ IF r.raised
          THEN /\ pc' = "raised"
               /\ acc' = <<>>
               /\ idx' = idx
          ELSE /\ pc' = pc
               /\ acc' = Append(acc, r.document)
               /\ idx' = idx + 1
    /\ UNCHANGED <<har, masking_mapping, component_classes, documents, built,
                   sel, k, blocks, kinds, markdown, first, calls, body_text,
                   replaced>>

\* Every entry is converted: the list is returned.
ReturnDocuments ==
    /\ pc = "convert"
    /\ idx > Len(har)
    /\ documents' = acc
    /\ built' = acc
    /\ pc' = "ready"
    /\ UNCHANGED <<har, masking_mapping, component_classes, idx, acc, invoked,
                   sel, k, blocks, kinds, markdown, first, calls, body_text,
                   replaced>>

(***************************************************************************)
(* render_document_to_markdown(documents[sel], component_classes): the     *)
(* generator builds one component at a time, join asks it for the next     *)
(* block, and the blocks are joined when the list is exhausted.            *)
(***************************************************************************)
StartRender ==
    /\ pc = "ready"
    /\ calls < MaxCalls
    /\ \E d \in 1..Len(documents) : sel' = d
    /\ pc' = "render"
    /\ k' = 1
    /\ blocks' = <<>>
    /\ kinds' = <<>>
    /\ UNCHANGED <<har, masking_mapping, component_classes, idx, acc,
                   documents, invoked, built, markdown, first, calls,
                   body_text, replaced>>

RenderComponent ==
    /\ pc = "render"
    /\ k <= Len(component_classes)
    /\ LET kind == component_classes[k] IN
       IF Condition(kind, documents[sel])
       THEN LET r == Render(kind, documents[sel]) IN
            /\ blocks' = Append(blocks, r.text)
            /\ kinds' = Append(kinds, kind)
            /\ documents' = [documents EXCEPT ![sel] = r.document]
       ELSE UNCHANGED <<blocks, kinds, documents>>
    /\ k' = k + 1
    /\ UNCHANGED <<har, masking_mapping, component_classes, pc, idx, acc,
                   invoked, built, sel, markdown, first, calls, body_text,
                   replaced>>

FinishRender ==
    /\ pc = "render"
    /\ k > Len(component_classes)
    /\ markdown' = Join(blocks, Separator)
    /\ first' = IF calls = 0 THEN Join(blocks, Separator) ELSE first
    /\ calls' = calls + 1
    /\ pc' = "ready"
    /\ UNCHANGED <<har, masking_mapping, component_classes, idx, acc,
                   documents, invoked, built, sel, k, blocks, kinds,
                   body_text, replaced>>

(***************************************************************************)
(* A direct call replace_string_by_mapping(body_text, masking_mapping).    *)
(***************************************************************************)
ApplyMasking ==
    /\ pc = "call"
    /\ replaced' = replace_string_by_mapping(body_text, masking_mapping)
    /\ pc' = "returned"
    /\ UNCHANGED <<har, masking_mapping, component_classes, idx, acc,
                   documents, invoked, built, sel, k, blocks, kinds, markdown,
                   first, calls, body_text>>

(***************************************************************************)
(* The inputs drawn.                                                       *)
(***************************************************************************)
TextPlain == <<"text/plain">>

\* The host name of the captures; the scheme is kept as one element.
Scheme == <<"https://">>

Hosts == {<<"h">>, <<"h", "h">>}

\* What may follow the host in a URL.
UrlChars == {"h", "/", "+", "%", "2", "F"}

BodyChars == {"[", "]", "1", " "}

\* The name/value pairs of a query: a name that ends another name, and a
\* value that reads as a placeholder.
QueryPairs ==
    {<<<<"b">>, <<"1">>>>,
     <<<<"b">>, <<"{", "x", "b", "}">>>>,
     <<<<"x", "b">>, <<"1">>>>}

\* The URL a browser records for the query pairs: /?name=value&name=value.
QueryPath(pairs) ==
    IF pairs = <<>> THEN <<"/">>
    ELSE <<"/", "?">>
         \o Join([i \in 1..Len(pairs) |-> pairs[i][1] \o <<"=">> \o pairs[i][2]],
                 <<"&">>)

\* An entry with nothing to say: a GET of / answered 204 with no body.
BaseEntry ==
    [method |-> GET,
     startedDateTime |-> StartTimeFormat,
     url |-> Scheme \o <<"h", "/">>,
     host |-> <<"h">>,
     queryString |-> <<>>,
     request_mimeType |-> None,
     request_text |-> None,
     response_date |-> ResponseDateFormat,
     status |-> 204,
     response_mimeType |-> None,
     response_text |-> <<>>,
     time |-> 12]

\* The ordered masking rules: a dict, so no literal twice.
MaskLiterals == {<<>>, <<"1">>, <<"[", "1">>}

MaskReplacements == {<<>>, <<"x">>}

RuleSets ==
    {m \in SeqsUpTo(MaskLiterals \X MaskReplacements, MaxRules) :
        \A i, j \in 1..Len(m) : i # j => m[i][1] # m[j][1]}

InitCommon ==
    /\ idx = 1
    /\ acc = <<>>
    /\ documents = None
    /\ invoked = <<>>
    /\ built = None
    /\ sel = 1
    /\ k = 1
    /\ blocks = <<>>
    /\ kinds = <<>>
    /\ markdown = None
    /\ first = None
    /\ calls = 0
    /\ replaced = None

(***************************************************************************)
(* The specifications.                                                     *)
(***************************************************************************)
\* The component lists a caller passes: main()'s, and every short list.
ComponentLists == SeqsUpTo(Kinds, MaxComponents) \cup {StandardComponents}

\* The entry of a render run, from its method, query pairs, request content
\* type and the two body texts.
RenderEntry(m, q, c, b) ==
    [BaseEntry EXCEPT
        !.method = m,
        !.queryString = q,
        !.url = Scheme \o <<"h">> \o QueryPath(q),
        !.request_mimeType = c,
        !.request_text = b[1],
        !.response_text = b[2],
        !.response_mimeType = ApplicationJson,
        !.status = IF b[2] = <<>> THEN 204 ELSE 200]

\* One entry is converted, then rendered MaxCalls times with one list: the
\* entries of every method with every query, and those of every method with
\* every content type and bodies.
RenderEntries ==
    {RenderEntry(m, q, None, <<None, <<"1">>>>) :
        m \in {GET, <<"POST">>},
        q \in SeqsUpTo(QueryPairs, MaxQuery)}
    \cup
    {RenderEntry(m, <<<<<<"b">>, <<"1">>>>>>, c, b) :
        m \in {GET, <<"POST">>},
        c \in {None, ApplicationJson, TextPlain},
        b \in {None, <<"1">>} \X {<<>>, <<"1">>}}

InitRender ==
    /\ InitCommon
    /\ \E e \in RenderEntries : har = <<e>>
    /\ masking_mapping = <<>>
    /\ component_classes \in ComponentLists
    /\ body_text = <<>>
    /\ pc = "convert"

NextRender ==
    \/ ConvertEntry
    \/ ReturnDocuments
    \/ StartRender
    \/ RenderComponent
    \/ FinishRender

SpecRender == InitRender /\ [][NextRender]_vars

\* A capture of up to MaxEntries entries, some of them malformed.
BatchEntries ==
    {[BaseEntry EXCEPT
         !.method = <<"POST">>,
         !.startedDateTime = t[1],
         !.response_date = t[2],
         !.request_mimeType = q[1],
         !.request_text = q[2],
         !.response_mimeType = ApplicationJson,
         !.response_text = r,
         !.status = 200] :
     t \in {<<StartTimeFormat, ResponseDateFormat>>,
            <<<<"%Y-%m-%d", "T", "%H:%M:%S", "%z">>, ResponseDateFormat>>,
            <<StartTimeFormat, <<"%Y-%m-%d", "T", "%H:%M:%S", "Z">>>>},
     q \in {<<ApplicationJson, <<"[", "1", "]">>>>,
            <<ApplicationJson, <<"[">>>>,
            <<ApplicationJson, <<>>>>,
            <<TextPlain, <<"[">>>>},
     r \in {<<"1">>, <<"]">>}}

InitBuild ==
    /\ InitCommon
    /\ har \in SeqsUpTo(BatchEntries, MaxEntries)
    /\ masking_mapping = <<<<<<"1">>, <<"x">>>>>>
    /\ component_classes = StandardComponents
    /\ body_text = <<>>
    /\ pc = "convert"

NextBuild ==
    \/ ConvertEntry
    \/ ReturnDocuments

SpecBuild == InitBuild /\ [][NextBuild]_vars

\* One entry whose URL holds anything after the host.
InitPath ==
    /\ InitCommon
    /\ \E h \in Hosts, rest \in SeqsUpTo(UrlChars, MaxRest) :
           har = <<[BaseEntry EXCEPT !.host = h, !.url = Scheme \o h \o rest]>>
    /\ masking_mapping = <<>>
    /\ component_classes = StandardComponents
    /\ body_text = <<>>
    /\ pc = "convert"

SpecPath == InitPath /\ [][NextBuild]_vars

\* One entry with any body text, on the request or on the response, any
\* content type and any masking rules.
BodyTexts == {None} \cup SeqsUpTo(BodyChars, MaxText)

InitBody ==
    /\ InitCommon
    /\ \E t \in BodyTexts, c \in {None, ApplicationJson, TextPlain} :
           \/ har = <<[BaseEntry EXCEPT !.method = <<"POST">>,
                                        !.request_text = t,
                                        !.request_mimeType = c]>>
           \/ har = <<[BaseEntry EXCEPT !.response_text = t,
                                        !.response_mimeType = c,
                                        !.status = 200]>>
    /\ masking_mapping \in RuleSets
    /\ component_classes = StandardComponents
    /\ body_text = <<>>
    /\ pc = "convert"

SpecBody == InitBody /\ [][NextBuild]_vars

\* A direct call of the masking function on any text.
InitMask ==
    /\ InitCommon
    /\ har = <<>>
    /\ masking_mapping \in RuleSets
    /\ component_classes = StandardComponents
    /\ body_text \in SeqsUpTo(BodyChars, MaxText)
    /\ pc = "call"

NextMask == ApplyMasking

SpecMask == InitMask /\ [][NextMask]_vars

(***************************************************************************)
(* What the claims are stated with.                                        *)
(***************************************************************************)
Range(s) == {s[i] : i \in 1..Len(s)}

\* t occurs in s.
Occurs(s, t) == \E i \in 1..Len(s) : MatchAt(s, t, i)

\* The path a heading block shows: what stands between its backquotes.
HeadingPath(block) == SubSeq(block, 8, Len(block) - 1)

\* The call in progress is the first one made on the document.
InFirstRender == pc = "render" /\ calls = 0

\* A render call has returned.
Rendered == pc = "ready" /\ calls >= 1

\* The first heading block of the call, if it has produced one.
FirstHeading == CHOOSE i \in 1..Len(kinds) :
                    /\ kinds[i] = "Endpoint"
                    /\ \A j \in 1..(i - 1) : kinds[j] # "Endpoint"

(***************************************************************************)
(* C1: rendering never changes the stored Document: at every point of a    *)
(* render call and after it, every field of every document, request_path   *)
(* included, has the value convert_har_file_to_documents returned.         *)
(***************************************************************************)
C1_RenderLeavesDocument ==
    pc \in {"ready", "render"} => documents = built

(***************************************************************************)
(* C3: the heading of a GET document shows every key=value parameter of    *)
(* the path (the text key=value after "?" or "&"), for every entry of the  *)
(* query mapping, as key={key} with that key's own name; the heading of    *)
(* any other document shows the stored path.  Stated of the first heading  *)
(* rendered from the document as it was built.                             *)
(***************************************************************************)
C3_HeadingTemplatesEveryPair ==
    (InFirstRender /\ "Endpoint" \in Range(kinds)) =>
        LET stored == built[sel]
            shown == HeadingPath(blocks[FirstHeading])
        IN  IF stored.request_method = GET
            THEN \A i \in 1..Len(stored.request_query_string) :
                   \A d \in {"?", "&"} :
                     LET key == stored.request_query_string[i][1]
                         value == stored.request_query_string[i][2]
                     IN  Occurs(stored.request_path,
                                <<d>> \o key \o <<"=">> \o value)
                         => Occurs(shown, <<d>> \o key \o <<"=", "{">>
                                          \o key \o <<"}">>)
            ELSE shown = stored.request_path

(***************************************************************************)
(* C10: two render calls in a row on the same document with the same       *)
(* component list return the same text.                                    *)
(***************************************************************************)
C10_RepeatedRenderSame ==
    (pc = "ready" /\ calls >= 2) => markdown = first

(***************************************************************************)
(* C2: render_document_to_markdown returns the blocks of the components    *)
(* whose condition is true, in the order of the supplied list, with        *)
(* exactly one "\n\n" between consecutive blocks, nothing for a component  *)
(* whose condition is false, no leading or trailing separator, and no      *)
(* separator when zero or one block is produced.                           *)
(***************************************************************************)
\* The condition of each kind, read off the entry the document was built
\* from.
Applies(kind, entry) ==
    CASE kind = "Endpoint" -> TRUE
      [] kind = "QueryParameter" -> entry.queryString # <<>>
      [] kind = "RequestHeader" ->
             entry.request_mimeType \notin {None, <<>>, ApplicationJson}
      [] kind = "RequestBody" -> entry.method # GET
      [] kind = "ResponseBody" -> TRUE

AppliesToRendered(kind) == Applies(kind, har[sel])

\* Where block i starts in the joined text: after the blocks before it and
\* one two-character separator for each.
RECURSIVE BlockStart(_)
BlockStart(i) ==
    IF i = 1 THEN 1 ELSE BlockStart(i - 1) + Len(blocks[i - 1]) + 2

\* What each kind's block starts with.
BlockTitle(kind) ==
    CASE kind = "Endpoint" -> "#"
      [] kind = "QueryParameter" -> "Query Parameter"
      [] kind = "RequestHeader" -> "Request Header"
      [] kind = "RequestBody" -> "Request Body"
      [] kind = "ResponseBody" -> "Response Body"

C2_BlocksJoinedInOrder ==
    Rendered =>
        LET n == Len(blocks) IN
        /\ kinds = SelectSeq(component_classes, AppliesToRendered)
        /\ n = Len(kinds)
        /\ \A i \in 1..n : blocks[i][1] = BlockTitle(kinds[i])
        /\ n = 0 => markdown = <<>>
        /\ n = 1 => markdown = blocks[1]
        /\ n >= 1 =>
             /\ Len(markdown) = BlockStart(n) + Len(blocks[n]) - 1
             /\ \A i \in 1..n :
                  SubSeq(markdown, BlockStart(i),
                         BlockStart(i) + Len(blocks[i]) - 1) = blocks[i]
             /\ \A i \in 1..(n - 1) :
                  /\ markdown[BlockStart(i) + Len(blocks[i])] = "\n"
                  /\ markdown[BlockStart(i) + Len(blocks[i]) + 1] = "\n"

\* A call that skipped a component and joined at least two blocks.
C2_Witness ==
    /\ Rendered
    /\ Len(blocks) >= 2
    /\ Len(blocks) < Len(component_classes)

(***************************************************************************)
(* C9: with the standard list, Endpoint and ResponseBody are always        *)
(* rendered (ResponseBody with an empty fenced block when the response     *)
(* body is absent); QueryParameter iff the query mapping is non-empty;     *)
(* RequestHeader iff the request content type is present and is not        *)
(* "application/json"; RequestBody iff the method is not GET (with an      *)
(* empty fenced block when the body is absent).                            *)
(***************************************************************************)
EmptyFence == <<"\n", "\n", Backtick, Backtick, Backtick, "json", "\n", "\n",
                Backtick, Backtick, Backtick>>

\* The block of the given kind in the call's output.
BlockOf(kind) == blocks[CHOOSE i \in 1..Len(kinds) : kinds[i] = kind]

C9_StandardSections ==
    (Rendered /\ component_classes = StandardComponents) =>
        LET entry == har[sel] IN
        /\ "Endpoint" \in Range(kinds)
        /\ "ResponseBody" \in Range(kinds)
        /\ "QueryParameter" \in Range(kinds) <=> entry.queryString # <<>>
        /\ "RequestHeader" \in Range(kinds) <=>
               /\ entry.request_mimeType # None
               /\ entry.request_mimeType # ApplicationJson
        /\ "RequestBody" \in Range(kinds) <=> entry.method # GET
        /\ Falsy(entry.response_text) =>
               BlockOf("ResponseBody") =
                   <<"Response Body", " ", "(", ToString(entry.status), ")">>
                   \o EmptyFence
        /\ (entry.method # GET /\ Falsy(entry.request_text)) =>
               BlockOf("RequestBody") = <<"Request Body">> \o EmptyFence

\* A POST of JSON answered with no body, rendered with the standard list.
C9_Witness ==
    /\ Rendered
    /\ component_classes = StandardComponents
    /\ har[sel].method # GET
    /\ har[sel].request_mimeType = ApplicationJson
    /\ Falsy(har[sel].response_text)
    /\ kinds = <<"Endpoint", "QueryParameter", "RequestBody", "ResponseBody">>

(***************************************************************************)
(* C7: the built request_query_string has exactly one entry per distinct   *)
(* name of the entry's query pairs, holding the value of that name's last  *)
(* occurrence, in the order the names first occur; QueryParameter.render   *)
(* emits exactly one bullet line per key, in that order.                   *)
(***************************************************************************)
FirstIndex(pairs, name) ==
    CHOOSE i \in 1..Len(pairs) :
        /\ pairs[i][1] = name
        /\ \A j \in 1..(i - 1) : pairs[j][1] # name

LastIndex(pairs, name) ==
    CHOOSE i \in 1..Len(pairs) :
        /\ pairs[i][1] = name
        /\ \A j \in (i + 1)..Len(pairs) : pairs[j][1] # name

\* The lines of a text: what stands between its newlines.
RECURSIVE LinesFrom(_, _, _)
LinesFrom(text, from, i) ==
    IF i > Len(text) THEN <<SubSeq(text, from, Len(text))>>
    ELSE IF text[i] = "\n"
         THEN <<SubSeq(text, from, i - 1)>> \o LinesFrom(text, i + 1, i + 1)
         ELSE LinesFrom(text, from, i + 1)

Lines(text) == LinesFrom(text, 1, 1)

C7_QueryMappingAndBullets ==
    pc \in {"ready", "render"} =>
        LET pairs == har[sel].queryString
            names == {pairs[i][1] : i \in 1..Len(pairs)}
            query == documents[sel].request_query_string
        IN  /\ Len(query) = Cardinality(names)
            /\ \A i \in 1..Len(query) :
                 /\ query[i][1] \in names
                 /\ query[i][2] = pairs[LastIndex(pairs, query[i][1])][2]
            /\ \A i, j \in 1..Len(query) :
                 i < j => FirstIndex(pairs, query[i][1])
                              < FirstIndex(pairs, query[j][1])
            /\ \A b \in 1..Len(blocks) :
                 kinds[b] = "QueryParameter" =>
                     LET lines == Lines(blocks[b]) IN
                     /\ Len(lines) = 2 + Cardinality(names)
                     /\ lines[1] = <<"Query Parameter">>
                     /\ lines[2] = <<>>
                     /\ \A i \in 1..Len(query) :
                          lines[2 + i] =
                              <<"-", " ", Backtick>> \o query[i][1]
                              \o <<Backtick, ":", " ", Backtick>>
                              \o pairs[LastIndex(pairs, query[i][1])][2]
                              \o <<Backtick>>

\* A name captured twice with two values, another name between them, and
\* the QueryParameter block rendered.
C7_Witness ==
    /\ pc = "ready"
    /\ "QueryParameter" \in Range(kinds)
    /\ \E i, m, j \in 1..Len(har[sel].queryString) :
         /\ i < m /\ m < j
         /\ har[sel].queryString[i][1] = har[sel].queryString[j][1]
         /\ har[sel].queryString[i][1] # har[sel].queryString[m][1]
         /\ har[sel].queryString[i][2] # har[sel].queryString[j][2]

(***************************************************************************)
(* C4: request_path is the decoded part of the URL that follows the FIRST  *)
(* occurrence of the host in the URL.                                      *)
(***************************************************************************)
FirstOccurrence(s, t) ==
    CHOOSE i \in 1..Len(s) :
        /\ MatchAt(s, t, i)
        /\ \A j \in 1..(i - 1) : ~MatchAt(s, t, j)

AfterFirst(s, t) == SubSeq(s, FirstOccurrence(s, t) + Len(t), Len(s))

C4_PathFollowsFirstHost ==
    pc = "ready" =>
        \A i \in 1..Len(documents) :
            documents[i].request_path =
                unquote_plus(AfterFirst(har[i].url, har[i].host))

(***************************************************************************)
(* C5: for the request and the response body of an entry.  As claimed: the *)
(* Document body is absent or empty if and only if the source text was,    *)
(* and then neither the normalizer nor the masking function is invoked;    *)
(* otherwise the stored body is mask(normalize(text, contentType)).        *)
(***************************************************************************)
\* The first entry has been converted and its document appended.
FirstConverted == pc \in {"convert", "ready"} /\ idx > 1

\* The two bodies of the first entry: source text, content type, stored
\* body, and the calls its conversion made.
BodySides ==
    {[text |-> har[1].request_text, mime |-> har[1].request_mimeType,
      body |-> acc[1].request_body, calls |-> invoked[1]],
     [text |-> har[1].response_text, mime |-> har[1].response_mimeType,
      body |-> acc[1].response_body, calls |-> invoked[2]]}

\* The formatted text is what is masked.
MaskedAfterFormatting(side) ==
    IF Falsy(side.text)
    THEN /\ side.body = side.text
         /\ side.calls = <<>>
    ELSE /\ side.body =
                replace_string_by_mapping(
                    parse_body_text(side.text, side.mime).value,
                    masking_mapping)
         /\ side.calls = <<"parse_body_text", "replace_string">>

C5_BodyAbsentIffSourceAbsent ==
    FirstConverted =>
        \A side \in BodySides :
            /\ Falsy(side.body) <=> Falsy(side.text)
            /\ MaskedAfterFormatting(side)

(***************************************************************************)
(* C5, amended: if the source text was empty or absent, the Document body  *)
(* is that same empty or absent value and neither the normalizer nor the   *)
(* masking function is invoked; otherwise both are invoked and the stored  *)
(* body is mask(normalize(text, contentType)), the rules applied to the    *)
(* formatted text, which may itself be empty.  The conversion fails only   *)
(* where the normalizer fails on a non-empty text.                         *)
(***************************************************************************)
C5_BodyMaskedAfterFormatting ==
    /\ FirstConverted => \A side \in BodySides : MaskedAfterFormatting(side)
    /\ pc = "raised" =>
           \E t \in {<<har[1].request_text, har[1].request_mimeType>>,
                     <<har[1].response_text, har[1].response_mimeType>>} :
               ~Falsy(t[1]) /\ parse_body_text(t[1], t[2]).raised

\* A JSON request body that formatting changed and masking changed again.
C5_Witness ==
    /\ FirstConverted
    /\ har[1].request_mimeType = ApplicationJson
    /\ ~Falsy(har[1].request_text)
    /\ parse_body_text(har[1].request_text, ApplicationJson).value
           # har[1].request_text
    /\ acc[1].request_body
           # parse_body_text(har[1].request_text, ApplicationJson).value

(***************************************************************************)
(* C6: replace_string_by_mapping maps the empty text to the empty text,    *)
(* for every ordered rule set, a rule with an empty literal included.      *)
(***************************************************************************)
C6_EmptyInputEmptyOutput ==
    (pc = "returned" /\ body_text = <<>>) => replaced = <<>>

(***************************************************************************)
(* C8: if any entry of the capture has a non-empty body of content type    *)
(* "application/json" that is no JSON, or a timestamp that does not match  *)
(* its pattern, the conversion of that entry raises, nothing catches it,   *)
(* and convert_har_file_to_documents returns no list, not even the         *)
(* documents built before it; an empty JSON-typed body never raises.       *)
(***************************************************************************)
\* The body texts of the captures drawn that are JSON.
JsonTexts == {<<"[", "1", "]">>, <<"1">>}

MalformedBody(text, mime) ==
    ~Falsy(text) /\ mime = ApplicationJson /\ text \notin JsonTexts

Malformed(entry) ==
    \/ entry.startedDateTime # StartTimeFormat
    \/ entry.response_date # ResponseDateFormat
    \/ MalformedBody(entry.request_text, entry.request_mimeType)
    \/ MalformedBody(entry.response_text, entry.response_mimeType)

C8_BatchAllOrNothing ==
    /\ (\E i \in 1..Len(har) : Malformed(har[i])) =>
           pc # "ready" /\ documents = None
    /\ pc = "raised" =>
           /\ Malformed(har[idx])
           /\ \A j \in 1..(idx - 1) : ~Malformed(har[j])
           /\ documents = None
    /\ pc = "ready" => Len(documents) = Len(har)
    /\ (pc = "convert" /\ idx > Len(har)) =>
           \A i \in 1..Len(har) : ~Malformed(har[i])

\* The second entry raised after the first was built, and the first entry
\* has an empty JSON-typed body.
C8_Witness ==
    /\ pc = "raised"
    /\ idx = 2
    /\ har[1].request_mimeType = ApplicationJson
    /\ har[1].request_text = <<>>
    /\ MalformedBody(har[2].request_text, har[2].request_mimeType)
    /\ har[2].startedDateTime = StartTimeFormat

====
